---- MODULE Spec2Model ----
(***************************************************************************)
(* Model of the claude-retro log-processing pipeline:                      *)
(*   lib/log-parser      parseLogFile, groupBySession                      *)
(*   lib/time-calculator groupSessions, generateSessionId                  *)
(*   lib/git-analyzer    getCommitsFromRepos                               *)
(*   lib/issue-extractor extractFromSession, updateIssueMap                *)
(*   src/processor.js    processLogs (one batch pass over the intake dir)  *)
(*   src/database.js     the relational schema and its constraints         *)
(*   src/commands/process.js  processCommand (watch mode)                  *)
(*   src/commands/capture.js  captureCommand (the writer of the intake)    *)
(*   src/query.js        getSummaryStats                                   *)
(*                                                                         *)
(* Six specifications are defined.  SpecGroup applies the pure function    *)
(* groupSessions to bounded inputs, and SpecLib does the same for          *)
(* parseLogFile, the issue extractors, the commit loop, the session loop,  *)
(* getCommitsFromRepos, getSummaryStats and the record captureCommand      *)
(* writes.  Spec runs processLogs step by step against the store and the   *)
(* intake directory, with environment faults (an I/O call or a statement   *)
(* that throws, the host ending the process).  SpecNoFault is Spec without *)
(* the environment faults.  SpecWatch is SpecNoFault with the run started  *)
(* by `claude-retro process --watch`.  SpecCapture is SpecNoFault with     *)
(* captureCommand appending to an intake file at any moment.               *)
(***************************************************************************)
EXTENDS Integers, Sequences, FiniteSets, TLC

VARIABLES
    \* ---- groupSessions called on its own (SpecGroup) ----
    gpc,            \* "call" before the call, "done" after it, "off" in Spec
    argPrompts,     \* the prompts argument
    argGapMinutes,  \* the gapMinutes argument
    result,         \* the returned array of sessions
    \* ---- the file system ----
    intake,         \* set of *.jsonl file names present in <dataDir>/logs
    content,        \* content[f]: the lines of file f
    processedDir,   \* files moved to <dataDir>/logs/.processed
    \* ---- the database (database.js) ----
    sessions,       \* table sessions, one row per session_id
    prompts,        \* table prompts, in prompt_id (autoincrement) order
    git_commits,    \* table git_commits, one row per commit_hash
    session_commits,\* table session_commits
    session_issues, \* table session_issues
    jira_issues,    \* table jira_issues (keys only)
    processing_log, \* table processing_log, one row per log_file
    \* ---- one invocation of processLogs ----
    pc,             \* position of the run
    logFiles,       \* the files found by readdirSync, in order
    idx,            \* index in logFiles of the file being processed
    entries,        \* entries parsed from the current file
    parseErrors,    \* errors collected for the current file
    allSessions,    \* sessions built from the current file
    totals,         \* totalEntries, totalSessions, totalCommits, totalIssues,
                    \* errors (lines 89-93)
    summary,        \* the counts the run printed (lines 253-264), <<>> if none
    \* ---- history kept for the properties ----
    outcome,        \* outcome[f] of file f in the current (or last) run
    readFiles,      \* files whose content the current run has read
    ledgerWrites,   \* files the current run wrote a ledger record for
    runEnd,         \* how the last run ended
    fullRuns,       \* number of runs that reached their end
    runs,           \* number of runs started
    faults,         \* number of environment faults so far
    captured,       \* the records the capture command appended, in order
    \* ---- log rotation ----
    archive,        \* names of the files in <dataDir>/logs/archive
    aged,           \* files of processedDir last modified over 30 days ago
    \* ---- the command that started the run ----
    watch,          \* FALSE: processor.js run as a script;
                    \* TRUE: `claude-retro process --watch`
    polling,        \* the setInterval of process.js line 45 is installed
    \* ---- a library function called on its own (SpecLib) ----
    lpc,            \* "call" before the call, "done" after it, "off" otherwise
    fn,             \* the function called
    arg,            \* its arguments
    ret             \* what it returned

vars == <<gpc, argPrompts, argGapMinutes, result,
          intake, content, processedDir,
          sessions, prompts, git_commits, session_commits, session_issues,
          jira_issues, processing_log,
          pc, logFiles, idx, entries, parseErrors, allSessions,
          totals, summary,
          outcome, readFiles, ledgerWrites, runEnd, fullRuns, runs, faults,
          captured, archive, aged, watch, polling, lpc, fn, arg, ret>>

groupVars == <<gpc, argPrompts, argGapMinutes, result>>

pipelineVars == <<intake, content, processedDir,
          sessions, prompts, git_commits, session_commits, session_issues,
          jira_issues, processing_log,
          pc, logFiles, idx, entries, parseErrors, allSessions,
          totals, summary,
          outcome, readFiles, ledgerWrites, runEnd, fullRuns, runs, faults,
          captured, archive, aged, watch, polling>>

libVars == <<lpc, fn, arg, ret>>

\* lines 89-93: the counters of a run before its first file
ZeroTotals ==
    [entries |-> 0, sessions |-> 0, commits |-> 0, issues |-> 0, errors |-> 0]

(***************************************************************************)
(* The values the pipeline variables keep while groupSessions is checked   *)
(* on its own, and the group variables while the pipeline runs.            *)
(***************************************************************************)
PipelineOff ==
    /\ intake = {} /\ content = <<>> /\ processedDir = {}
    /\ sessions = {} /\ prompts = <<>> /\ git_commits = {}
    /\ session_commits = {} /\ session_issues = {} /\ jira_issues = {}
    /\ processing_log = {}
    /\ pc = "off" /\ logFiles = <<>> /\ idx = 0
    /\ entries = <<>> /\ parseErrors = <<>> /\ allSessions = <<>>
    /\ totals = ZeroTotals /\ summary = <<>>
    /\ outcome = <<>> /\ readFiles = {} /\ ledgerWrites = {} /\ runEnd = "none"
    /\ fullRuns = 0 /\ runs = 0 /\ faults = 0 /\ captured = <<>>
    /\ archive = {} /\ aged = {} /\ watch = FALSE /\ polling = FALSE

GroupOff ==
    /\ gpc = "off" /\ argPrompts = <<>> /\ argGapMinutes = 0 /\ result = <<>>

LibOff ==
    /\ lpc = "off" /\ fn = "none" /\ arg = <<>> /\ ret = <<>>

(***************************************************************************)
(* Bounds of the model.                                                    *)
(***************************************************************************)
MaxLen == 3         \* longest prompts argument given to groupSessions
MaxTick == 5        \* timestamps of SpecGroup are 0, 30, ..., 30 * MaxTick
MaxGap == 1         \* gapMinutes of SpecGroup ranges over 0..MaxGap
MaxLines == 2       \* longest intake file, in lines
MaxRuns == 2        \* invocations of processLogs
MaxFaults == 1      \* environment faults in one behaviour
MaxParseLines == 3  \* longest file content given to parseLogFile on its own
MaxPrompts == 2     \* most prompts of a session given to extractFromSession
MaxCommits == 2     \* most commits of a session in the commit loop
MaxEntries == 2     \* most entries of a file whose sessions are stored
MaxRepoPaths == 3   \* longest repoPaths argument given to getCommitsFromRepos
MaxCaptures == 1    \* records the capture command appends in one behaviour

\* JavaScript null / undefined / absent field.
Null == "<null>"

Front(s) == SubSeq(s, 1, Len(s) - 1)

Last(s) == s[Len(s)]

Range(s) == {s[i] : i \in 1..Len(s)}

(***************************************************************************)
(* lib/time-calculator.js : groupSessions                                  *)
(***************************************************************************)

\* duration_minutes is a real number; it is kept exactly as an integer
\* number of 1/MinuteScale minutes.
MinuteScale == 60000

\* sessions closed because a later prompt opened a new one (lines 30-31)
DurationOnGap(start_time, end_time) ==
    (((end_time - start_time) * MinuteScale) \div 1000) \div 60

\* the session still open when the input ends (lines 61-62)
DurationAtEnd(start_time, end_time) ==
    ((end_time - start_time) * MinuteScale) \div 60

\* sha256 of `${timestamp}-${cwd || ''}-${session_id}`, first 16 hex digits.
\* The digest is taken to be injective on the hashed string, so the id is
\* modelled by that string.
generateSessionId(prompt) ==
    ToString(prompt.timestamp) \o "-"
        \o (IF prompt.cwd = Null THEN "" ELSE prompt.cwd) \o "-"
        \o prompt.session_id

RECURSIVE InsertByTimestamp(_, _)
InsertByTimestamp(e, s) ==
    IF s = <<>> THEN <<e>>
    ELSE IF Last(s).timestamp - e.timestamp <= 0 THEN Append(s, e)
    ELSE Append(InsertByTimestamp(e, Front(s)), Last(s))

\* a mis-sort: equal timestamps are swapped (ties not kept in input order)
RECURSIVE SortUnstable(_)
SortUnstable(ps) ==
    IF ps = <<>> THEN <<>>
    ELSE LET rest == SortUnstable(Front(ps))
             e == Last(ps)
             before == SelectSeq(rest, LAMBDA x : x.timestamp < e.timestamp)
             after == SelectSeq(rest, LAMBDA x : x.timestamp >= e.timestamp)
         IN before \o <<e>> \o after

\* [...prompts].sort((a, b) => a.timestamp - b.timestamp): Array.prototype.sort
\* is stable, so elements that compare equal keep their input order.
RECURSIVE SortByTimestamp(_)
SortByTimestamp(ps) ==
    IF ps = <<>> THEN <<>>
    ELSE InsertByTimestamp(Last(ps), SortByTimestamp(Front(ps)))

GapExceededOrEqual(promptTime, lastPromptTime, gapMs) ==
    (promptTime - lastPromptTime) >= gapMs

\* (promptTime - currentSession.lastPromptTime) > gapMs
GapExceeded(promptTime, lastPromptTime, gapMs) ==
    (promptTime - lastPromptTime) > gapMs

\* the object created at lines 36-44 (prompt_count and duration_minutes are
\* not set yet; they are written before the session is returned)
NewSession(prompt, promptTime) ==
    [session_id |-> generateSessionId(prompt),
     start_time |-> promptTime \div 1000,
     end_time |-> promptTime \div 1000,
     lastPromptTime |-> promptTime,
     cwd |-> prompt.cwd,
     prompts |-> <<>>,
     original_session_id |-> prompt.session_id,
     prompt_count |-> 0,
     duration_minutes |-> 0]

\* lines 47-56
AddPrompt(cur, prompt, promptTime) ==
    [cur EXCEPT !.prompts = Append(@, prompt),
                !.end_time = promptTime \div 1000,
                !.lastPromptTime = promptTime,
                !.prompt_count = Len(cur.prompts) + 1,
                !.cwd = IF prompt.cwd # Null THEN prompt.cwd ELSE @]

FinalizeOnGap(cur) ==
    [cur EXCEPT !.duration_minutes = DurationOnGap(cur.start_time, cur.end_time)]

FinalizeLast(cur) ==
    [cur EXCEPT !.duration_minutes = DurationAtEnd(cur.start_time, cur.end_time)]

\* the loop of lines 22-57 and the finalisation of lines 59-64;
\* cur is <<>> for currentSession = null and <<session>> otherwise
RECURSIVE ScanPrompts(_, _, _, _, _)
ScanPrompts(sorted, i, acc, cur, gapMs) ==
    IF i > Len(sorted)
    THEN IF cur # <<>> THEN Append(acc, FinalizeLast(cur[1])) ELSE acc
    ELSE LET prompt == sorted[i]
             promptTime == prompt.timestamp * 1000
             startNew == \/ cur = <<>>
                         \/ GapExceeded(promptTime, cur[1].lastPromptTime, gapMs)
             closed == IF startNew /\ cur # <<>>
                       THEN Append(acc, FinalizeOnGap(cur[1]))
                       ELSE acc
             base == IF startNew THEN NewSession(prompt, promptTime) ELSE cur[1]
         IN ScanPrompts(sorted, i + 1, closed,
                        <<AddPrompt(base, prompt, promptTime)>>, gapMs)

groupSessions(ps, gapMinutes) ==
    IF Len(ps) = 0 THEN <<>>
    ELSE ScanPrompts(SortByTimestamp(ps), 1, <<>>, <<>>, gapMinutes * 60 * 1000)

(***************************************************************************)
(* lib/log-parser.js : parseLogFile, groupBySession                        *)
(*                                                                         *)
(* A line of a file is a record: kind is "blank" (whitespace only),        *)
(* "garbage" (JSON.parse throws, or the value has no properties) or "json" *)
(* (an object); fields is the set of keys the object has, and a key that   *)
(* is absent holds 0 or Null.                                              *)
(***************************************************************************)
JsonLine(ts, sid, cwd, branch) ==
    [kind |-> "json", fields |-> {"timestamp", "session_id", "cwd", "git_branch"},
     timestamp |-> ts, session_id |-> sid, prompt_preview |-> Null,
     cwd |-> cwd, git_branch |-> branch]

GarbageLine ==
    [kind |-> "garbage", fields |-> {}, timestamp |-> 0, session_id |-> Null,
     prompt_preview |-> Null, cwd |-> Null, git_branch |-> Null]

\* JavaScript truthiness of entry[key]
TruthyNumber(l, key) == key \in l.fields /\ l[key] # 0

TruthyString(l, key) == key \in l.fields /\ l[key] # Null /\ l[key] # ""

\* entry[key] || null
OrNull(l, key) == IF TruthyString(l, key) THEN l[key] ELSE Null

\* content.trim().split('\n').filter(line => line.trim())
NonBlankLines(lines) == SelectSeq(lines, LAMBDA l : l.kind # "blank")

\* lines 381-386: the line parses and both required fields are truthy
LineIsEntry(l) ==
    /\ l.kind = "json"
    /\ TruthyNumber(l, "timestamp")
    /\ TruthyString(l, "session_id")

\* lines 389-397
EntryOf(l, i) ==
    [timestamp |-> l.timestamp, session_id |-> l.session_id,
     prompt_preview |-> OrNull(l, "prompt_preview"), cwd |-> OrNull(l, "cwd"),
     git_branch |-> OrNull(l, "git_branch"), line |-> i]

RECURSIVE ParseLines(_, _, _, _)
ParseLines(lines, i, es, errs) ==
    IF i > Len(lines) THEN [entries |-> es, errors |-> errs]
    ELSE IF LineIsEntry(lines[i])
         THEN ParseLines(lines, i + 1, Append(es, EntryOf(lines[i], i)), errs)
         ELSE ParseLines(lines, i + 1, es,
                         Append(errs, [line |-> i,
                                       error |-> IF lines[i].kind = "json"
                                                 THEN "Missing required fields"
                                                 ELSE "parse"]))

parseLogFile(lines) == ParseLines(NonBlankLines(lines), 1, <<>>, <<>>)

RECURSIVE Dedup(_)
Dedup(s) ==
    IF s = <<>> THEN <<>>
    ELSE LET d == Dedup(Front(s))
         IN IF Last(s) \in Range(d) THEN d ELSE Append(d, Last(s))

\* every entry in one group, whatever its session_id
OneGroup(es) == IF es = <<>> THEN <<>> ELSE <<es>>

\* the Map of lines 413-422 as the sequence of its values, in insertion order
groupBySession(es) ==
    LET keys == Dedup([i \in 1..Len(es) |-> es[i].session_id])
    IN [k \in 1..Len(keys) |->
            SelectSeq(es, LAMBDA e : e.session_id = keys[k])]

(***************************************************************************)
(* lib/git-analyzer.js : getCommits, getCommitsFromRepos.  The repository  *)
(* state is fixed: /r is a git repository with one commit, /q one with two *)
(* commits, /bad has a .git directory on which `git log` fails, and no     *)
(* other path is a repository.                                             *)
(***************************************************************************)
GitRepos == {"/r", "/q", "/bad"}

\* the repositories in which execSync(`git log ...`) throws
FailingRepos == {"/bad"}

\* what `git log --all` prints for a repository, newest first
RepoLog(repoPath) ==
    CASE repoPath = "/r" ->
            <<[commit_hash |-> "c1", timestamp |-> 4000, message |-> "[ABC-1] fix",
               author |-> "dev", repo_path |-> "/r"]>>
      [] repoPath = "/q" ->
            <<[commit_hash |-> "c3", timestamp |-> 5000, message |-> "wip",
               author |-> "dev", repo_path |-> "/q"],
              [commit_hash |-> "c2", timestamp |-> 3000, message |-> "wip",
               author |-> "dev", repo_path |-> "/q"]>>
      [] OTHER -> <<>>

isGitRepo(repoPath) == repoPath \in GitRepos

\* lines 21-62: [] for a path that is no repository (line 23) and for a
\* repository whose log cannot be read (the catch of lines 58-61)
getCommits(repoPath, startTime, endTime) ==
    IF ~isGitRepo(repoPath) THEN <<>>
    ELSE IF repoPath \in FailingRepos THEN <<>>
    ELSE SelectSeq(RepoLog(repoPath),
                   LAMBDA c : startTime <= c.timestamp /\ c.timestamp <= endTime)

RECURSIVE ConcatCommits(_, _, _)
ConcatCommits(repos, startTime, endTime) ==
    IF repos = <<>> THEN <<>>
    ELSE ConcatCommits(Front(repos), startTime, endTime)
            \o getCommits(Last(repos), startTime, endTime)

\* repoPaths.filter(Boolean), every path as often as it is listed
everyRepoPath(repoPaths) ==
    SelectSeq(repoPaths, LAMBDA r : r # Null /\ r # "")

\* line 105: [...new Set(repoPaths.filter(Boolean))]
uniqueRepos(repoPaths) ==
    Dedup(SelectSeq(repoPaths, LAMBDA r : r # Null /\ r # ""))

getCommitsFromRepos(repoPaths, startTime, endTime) ==
    SortByTimestamp(ConcatCommits(uniqueRepos(repoPaths), startTime, endTime))

(***************************************************************************)
(* lib/issue-extractor.js : the key patterns.                              *)
(*                                                                         *)
(* A text is the sequence of its characters.  Every pattern of the file    *)
(* has the shape  pre LETTERS - DIGITS post  where LETTERS is [A-Z]{1,3}   *)
(* or [A-Z]+ (with the i flag, any letter), DIGITS is \d+, pre is nothing, *)
(* \b, ^ or a literal character and post is nothing, \b, \s or a literal   *)
(* character.  The key is LETTERS - DIGITS.                                *)
(***************************************************************************)
LowerLetters ==
    <<"a", "b", "c", "d", "e", "f", "g", "h", "i", "j", "k", "l", "m",
      "n", "o", "p", "q", "r", "s", "t", "u", "v", "w", "x", "y", "z">>

UpperLetters ==
    <<"A", "B", "C", "D", "E", "F", "G", "H", "I", "J", "K", "L", "M",
      "N", "O", "P", "Q", "R", "S", "T", "U", "V", "W", "X", "Y", "Z">>

DigitChars == {"0", "1", "2", "3", "4", "5", "6", "7", "8", "9"}

Whitespace == {" "}

\* String.prototype.toUpperCase, one character
ToUpper(c) ==
    IF c \in Range(LowerLetters)
    THEN UpperLetters[CHOOSE i \in 1..Len(LowerLetters) : LowerLetters[i] = c]
    ELSE c

\* the characters of t[from..to], upper-cased, as one string
RECURSIVE UpperString(_, _, _)
UpperString(t, from, to) ==
    IF from > to THEN ""
    ELSE UpperString(t, from, to - 1) \o ToUpper(t[to])

\* \w at position j of t; a position outside t holds no character
IsWordAt(t, j) ==
    /\ j >= 1 /\ j <= Len(t)
    /\ t[j] \in Range(LowerLetters) \cup Range(UpperLetters) \cup DigitChars \cup {"_"}

\* \b between t[j - 1] and t[j]
WordBoundary(t, j) == IsWordAt(t, j - 1) # IsWordAt(t, j)

MaxOf(S) == CHOOSE j \in S : \A j2 \in S : j2 <= j

\* the last position of the longest run of characters of class cls that
\* starts at k (k - 1 when t[k] is not of the class)
RunEndFrom(t, k, cls) ==
    MaxOf({j \in (k - 1)..Len(t) : \A m \in k..j : t[m] \in cls})

\* [A-Z], and with the i flag [A-Za-z]
LetterClass(p) ==
    IF p.ci THEN Range(UpperLetters) \cup Range(LowerLetters)
    ELSE Range(UpperLetters)

\* the letters run from k to le: they are 1 to p.max letters followed by the
\* dash and by at least one digit; the position of the last digit, else 0
DigitsEnd(t, k, p, le) ==
    IF /\ le >= k
       /\ (p.max = 0 \/ le - k + 1 <= p.max)
       /\ le + 1 <= Len(t) /\ t[le + 1] = "-"
       /\ le + 2 <= Len(t) /\ t[le + 2] \in DigitChars
    THEN RunEndFrom(t, le + 2, DigitChars) ELSE 0

\* LETTERS - DIGITS matched at k: the position of its last digit, 0 when
\* it does not match.  The character after the letters must be the dash and
\* the character after the digits must satisfy post, so backtracking to a
\* shorter run of letters or digits never helps: the runs are maximal.
KeyAt(t, k, p) ==
    IF k <= Len(t) THEN DigitsEnd(t, k, p, RunEndFrom(t, k, LetterClass(p))) ELSE 0

PreHolds(t, i, p) ==
    CASE p.pre = "" -> TRUE
      [] p.pre = "\\b" -> WordBoundary(t, i)
      [] p.pre = "^" -> i = 1
      [] OTHER -> t[i] = p.pre

PostHolds(t, e, p) ==
    CASE p.post = "" -> TRUE
      [] p.post = "\\b" -> WordBoundary(t, e + 1)
      [] p.post = "\\s" -> e + 1 <= Len(t) /\ t[e + 1] \in Whitespace
      [] OTHER -> e + 1 <= Len(t) /\ t[e + 1] = p.post

\* the key starts at k and ends at e (0: no key at k)
MatchOf(t, i, p, k, e) ==
    IF e # 0 /\ PreHolds(t, i, p) /\ PostHolds(t, e, p)
    THEN [ok |-> TRUE, key |-> UpperString(t, k, e),
          next |-> IF p.post \in {"", "\\b"} THEN e + 1 ELSE e + 2]
    ELSE [ok |-> FALSE, key |-> "", next |-> i + 1]

KeyStart(i, p) == IF p.pre \in {"", "\\b", "^"} THEN i ELSE i + 1

\* the pattern matched with its first character at position i
MatchAt(t, i, p) ==
    MatchOf(t, i, p, KeyStart(i, p), KeyAt(t, KeyStart(i, p), p))

\* text.match(p) without the g flag (the first match only), and
\* [...text.matchAll(p)] with it: the keys, upper-cased, left to right
RECURSIVE MatchFrom(_, _, _)
RECURSIVE MatchesAfter(_, _, _)
MatchesAfter(t, p, m) ==
    IF ~m.ok THEN MatchFrom(t, m.next, p)
    ELSE IF p.g THEN <<m.key>> \o MatchFrom(t, m.next, p)
    ELSE <<m.key>>

MatchFrom(t, i, p) ==
    IF i > Len(t) THEN <<>> ELSE MatchesAfter(t, p, MatchAt(t, i, p))

Pattern(pre, max, ci, post, g) ==
    [pre |-> pre, max |-> max, ci |-> ci, post |-> post, g |-> g]

\* line 138: /\b([A-Z]{1,3}-\d+)\b/i
BranchPattern == Pattern("\\b", 3, TRUE, "\\b", FALSE)

\* lines 180-184: /\[([A-Z]{1,3}-\d+)\]/g, /^([A-Z]{1,3}-\d+):/g,
\* /^([A-Z]{1,3}-\d+)\s/g
CommitPatterns ==
    <<Pattern("[", 3, FALSE, "]", TRUE),
      Pattern("^", 3, FALSE, ":", TRUE),
      Pattern("^", 3, FALSE, "\\s", TRUE)>>

\* line 228: /\b([A-Z]{1,3}-\d+)\b/g
PromptPattern == Pattern("\\b", 3, FALSE, "\\b", TRUE)

\* line 272: /\/([A-Z]{1,3}-\d+)\//g
PathPattern == Pattern("/", 3, FALSE, "/", TRUE)

\* config.issueKeyPatterns when the configuration names none
\* (lib/config.js): ['[A-Z]+-\\d+']
IssueKeyPatterns == <<"[A-Z]+-\\d+">>

\* new RegExp(pattern, 'g') for the one custom pattern of the model
CustomPattern(pattern) == Pattern("", 0, FALSE, "", TRUE)

\* the keys of all patterns of ps, in order
RECURSIVE MatchEach(_, _)
MatchEach(t, ps) ==
    IF ps = <<>> THEN <<>>
    ELSE MatchEach(t, Front(ps)) \o MatchFrom(t, 1, Last(ps))

\* the custom patterns (lines 150-164 and the like)
KeysOfCustom(t, patterns) ==
    MatchEach(t, [i \in 1..Len(patterns) |-> CustomPattern(patterns[i])])

KeysInBranch(text) == MatchFrom(text, 1, BranchPattern)

KeysInCommitMessage(text) == MatchEach(text, CommitPatterns)

KeysInPrompt(text) == MatchFrom(text, 1, PromptPattern)

KeysInPath(text) == MatchFrom(text, 1, PathPattern)

(***************************************************************************)
(* lib/issue-extractor.js : extractFromSession, updateIssueMap.            *)
(* Confidence is kept in tenths.                                           *)
(***************************************************************************)
BranchConfidence == 10

CommitConfidence == 10

PromptConfidence == 7

DirectoryConfidence == 5

\* a key is pushed unless results already holds it
IssuesOf(keys, source, confidence) ==
    LET ks == Dedup(keys)
    IN [i \in 1..Len(ks) |->
           [issueKey |-> ks[i], source |-> source, confidence |-> confidence]]

extractFromBranch(branchName, patterns) ==
    IssuesOf(KeysInBranch(branchName) \o KeysOfCustom(branchName, patterns),
             "branch", BranchConfidence)

extractFromCommitMessage(message, patterns) ==
    IssuesOf(KeysInCommitMessage(message) \o KeysOfCustom(message, patterns),
             "commit", CommitConfidence)

extractFromPrompt(promptText, patterns) ==
    IssuesOf(KeysInPrompt(promptText) \o KeysOfCustom(promptText, patterns),
             "prompt", PromptConfidence)

extractFromPath(path, patterns) ==
    IssuesOf(KeysInPath(path) \o KeysOfCustom(path, patterns),
             "directory", DirectoryConfidence)

\* the record stored first for a key stays, whatever comes later
updateIssueMapKeepFirst(map, issue) ==
    IF \E i \in 1..Len(map) : map[i].issueKey = issue.issueKey
    THEN map ELSE Append(map, issue)

\* the Map is the sequence of its values in insertion order
updateIssueMap(map, issue) ==
    LET at == {i \in 1..Len(map) : map[i].issueKey = issue.issueKey}
    IN IF at = {} THEN Append(map, issue)
       ELSE LET i == CHOOSE j \in at : TRUE
            IN IF issue.confidence > map[i].confidence
               THEN [map EXCEPT ![i] = issue]
               ELSE IF issue.confidence = map[i].confidence
               THEN [map EXCEPT ![i].source = @ \o "," \o issue.source]
               ELSE map

RECURSIVE UpdateAll(_, _)
UpdateAll(map, issues) ==
    IF issues = <<>> THEN map
    ELSE updateIssueMap(UpdateAll(map, Front(issues)), Last(issues))

\* the characters of the texts that sessions and commits of the model hold
Chars(text) ==
    CASE text = "/r" -> <<"/", "r">>
      [] text = "/w/ABC-1/app" ->
            <<"/", "w", "/", "A", "B", "C", "-", "1", "/", "a", "p", "p">>
      [] text = "feature/ABC-1-fix" ->
            <<"f", "e", "a", "t", "u", "r", "e", "/", "A", "B", "C", "-", "1",
              "-", "f", "i", "x">>
      [] text = "[ABC-1] fix" ->
            <<"[", "A", "B", "C", "-", "1", "]", " ", "f", "i", "x">>
      [] text = "see ABC-1" ->
            <<"s", "e", "e", " ", "A", "B", "C", "-", "1">>
      [] text = "wip" -> <<"w", "i", "p">>

\* the texts of the model and the pattern lists it passes
ModelTexts ==
    {"/r", "/w/ABC-1/app", "feature/ABC-1-fix", "[ABC-1] fix", "see ABC-1", "wip"}

PatternLists == {<<>>, IssueKeyPatterns}

\* the four extractors on the texts of the model, evaluated once
IssuesInBranch ==
    [text \in ModelTexts, ps \in PatternLists |-> extractFromBranch(Chars(text), ps)]

IssuesInCommitMessage ==
    [text \in ModelTexts, ps \in PatternLists |->
        extractFromCommitMessage(Chars(text), ps)]

IssuesInPrompt ==
    [text \in ModelTexts, ps \in PatternLists |-> extractFromPrompt(Chars(text), ps)]

IssuesInPath ==
    [text \in ModelTexts, ps \in PatternLists |-> extractFromPath(Chars(text), ps)]

\* lines 326-331
RECURSIVE FromCommits(_, _, _)
FromCommits(map, commits, patterns) ==
    IF commits = <<>> THEN map
    ELSE UpdateAll(FromCommits(map, Front(commits), patterns),
                   IssuesInCommitMessage[Last(commits).message, patterns])

\* lines 334-349
RECURSIVE FromPrompts(_, _, _)
FromPrompts(map, ps, patterns) ==
    IF ps = <<>> THEN map
    ELSE LET m0 == FromPrompts(map, Front(ps), patterns)
             p == Last(ps)
             m1 == IF p.prompt_preview # Null
                   THEN UpdateAll(m0, IssuesInPrompt[p.prompt_preview, patterns])
                   ELSE m0
         IN IF p.cwd # Null
            THEN UpdateAll(m1, IssuesInPath[p.cwd, patterns])
            ELSE m1

extractFromSession(session, commits, patterns) ==
    LET m0 == IF Len(session.prompts) > 0 /\ session.prompts[1].git_branch # Null
              THEN UpdateAll(<<>>, IssuesInBranch[session.prompts[1].git_branch,
                                                  patterns])
              ELSE <<>>
    IN FromPrompts(FromCommits(m0, commits, patterns), session.prompts, patterns)

(***************************************************************************)
(* src/commands/capture.js : truncatePrompt and the record captureCommand  *)
(* appends to the intake file.  A prompt is the sequence of its            *)
(* characters; NullText stands for JavaScript null where a prompt could    *)
(* be.                                                                     *)
(***************************************************************************)
NullText == <<Null>>

\* prompt.substring(0, 200)
SummaryLimit == 200

\* lines 29-36
truncatePrompt(prompt, mode) ==
    IF mode = "minimal" THEN NullText
    ELSE IF mode = "summary"
    THEN SubSeq(prompt, 1, IF Len(prompt) < SummaryLimit THEN Len(prompt)
                           ELSE SummaryLimit)
    ELSE prompt

\* lines 73-85: the object logEntry as the line JSON.stringify makes of it
\* (a property whose value is undefined is left out); the input always
\* has a timestamp, and data.user_prompt is NullText when it has no prompt
logEntry(data, privacyMode) ==
    LET user_prompt == IF data.user_prompt = NullText THEN <<>>
                       ELSE data.user_prompt
    IN [kind |-> "json",
        fields |-> {"timestamp", "user_prompt", "prompt_length", "git_branch",
                    "git_remote"}
                   \cup {k \in {"session_id", "cwd"} : data[k] # Null},
        timestamp |-> data.timestamp,
        session_id |-> data.session_id,
        user_prompt |-> truncatePrompt(user_prompt, privacyMode),
        prompt_length |-> Len(user_prompt),
        cwd |-> data.cwd,
        git_branch |-> IF data.git_branch = Null THEN "" ELSE data.git_branch,
        git_remote |-> ""]

PrivacyModes == {"minimal", "summary", "full"}

ShortPrompt == <<"s", "e", "e", " ", "A", "B", "C", "-", "1">>

\* a prompt longer than the summary limit
LongPrompt == ShortPrompt \o [i \in 1..SummaryLimit |-> "x"]

(***************************************************************************)
(* Entries.  An entry is the object parseLogFile pushes (log-parser lines  *)
(* 389-397); prompt_length and git_remote are carried to the prompts table *)
(* unchanged and read by nothing else, so they are left out.  line is the  *)
(* position of the entry in its input, kept to tell entries apart.         *)
(***************************************************************************)
Timestamps == {30 * k : k \in 0..MaxTick}

GapMinutes == 0..MaxGap

ProtoEntries ==
    [timestamp : Timestamps, session_id : {"s1"}, prompt_preview : {Null},
     cwd : {"/r"}, git_branch : {Null}, line : {0}]

\* every list of at most MaxLen entries, the i-th one carrying line = i
GroupInputs ==
    UNION {{[i \in 1..n |-> [f[i] EXCEPT !.line = i]] : f \in [1..n -> ProtoEntries]}
           : n \in 0..MaxLen}

(***************************************************************************)
(* src/processor.js : processLogs, against the schema of src/database.js   *)
(***************************************************************************)
Files == {"a.jsonl", "b.jsonl"}

\* the order in which readdirSync lists the intake directory
FileOrder == <<"a.jsonl", "b.jsonl">>

\* config.sessionGapMinutes (default)
SessionGapMinutes == 30

\* the lines the intake files of the model are made of
LogLines ==
    {JsonLine(1000, "s1", "/r", Null),
     JsonLine(1000, "s2", Null, Null),
     JsonLine(4000, "s1", "/r", Null),
     JsonLine(4000, "s1", "/r", "feature/ABC-1-fix"),
     GarbageLine}

FileContents == UNION {[1..n -> LogLines] : n \in 0..MaxLines}

\* the issues the tracker returns for the user (fetchAssignedIssues)
JiraAssigned == {"ABC-1"}

IssueSources == {"branch", "commit", "prompt", "directory"}

\* lines 128-135
BuildSessions(es) ==
    LET groups == groupBySession(es)
        F[k \in 0..Len(groups)] ==
            IF k = 0 THEN <<>>
            ELSE F[k - 1] \o groupSessions(groups[k], SessionGapMinutes)
    IN F[Len(groups)]

\* lines 188-190
RepoPaths(session) ==
    LET cwds == [i \in 1..Len(session.prompts) |-> session.prompts[i].cwd]
    IN SelectSeq(cwds, LAMBDA c : c # Null)

\* lines 192-197
CommitsOf(session) ==
    IF Len(RepoPaths(session)) > 0
    THEN getCommitsFromRepos(RepoPaths(session), session.start_time, session.end_time)
    ELSE <<>>

\* lines 213-218
IssuesOfSession(session) ==
    IF Len(RepoPaths(session)) > 0
    THEN extractFromSession(session, CommitsOf(session), IssueKeyPatterns)
    ELSE <<>>

\* the CHECK constraints of session_issues and its foreign key to jira_issues
\* (database.js lines 83-87); foreign keys are enforced
IssueRowAccepted(issue, jira) ==
    /\ issue.source \in IssueSources
    /\ issue.confidence >= 0 /\ issue.confidence <= 10
    /\ issue.issueKey \in jira

\* some statement of the transaction violates a constraint and throws
TransactionThrows(ss, jira) ==
    \E k \in 1..Len(ss) : \E i \in 1..Len(IssuesOfSession(ss[k])) :
        ~IssueRowAccepted(IssuesOfSession(ss[k])[i], jira)

\* INSERT OR REPLACE INTO sessions; file is the file that wrote the row
SessionRow(session, f) ==
    [session_id |-> session.session_id, start_time |-> session.start_time,
     end_time |-> session.end_time, cwd |-> session.cwd,
     duration_minutes |-> session.duration_minutes,
     prompt_count |-> session.prompt_count, file |-> f]

InsertSession(table, session, f) ==
    {r \in table : r.session_id # session.session_id} \cup {SessionRow(session, f)}

\* INSERT INTO prompts, one row per prompt of the session
InsertPrompts(table, session, f) ==
    table \o [i \in 1..Len(session.prompts) |->
                [session_id |-> session.session_id,
                 timestamp |-> session.prompts[i].timestamp,
                 prompt_preview |-> session.prompts[i].prompt_preview,
                 cwd |-> session.prompts[i].cwd,
                 git_branch |-> session.prompts[i].git_branch,
                 file |-> f, line |-> session.prompts[i].line]]

\* INSERT OR REPLACE INTO git_commits
InsertOrReplaceCommits(table, commits) ==
    LET F[k \in 0..Len(commits)] ==
            IF k = 0 THEN table
            ELSE {r \in F[k - 1] : r.commit_hash # commits[k].commit_hash}
                 \cup {commits[k]}
    IN F[Len(commits)]

\* INSERT OR IGNORE INTO git_commits
InsertCommits(table, commits) ==
    LET F[k \in 0..Len(commits)] ==
            IF k = 0 THEN table
            ELSE IF \E r \in F[k - 1] : r.commit_hash = commits[k].commit_hash
                 THEN F[k - 1]
                 ELSE F[k - 1] \cup {commits[k]}
    IN F[Len(commits)]

\* INSERT OR IGNORE INTO session_commits
InsertSessionCommits(table, session, commits, f) ==
    LET F[k \in 0..Len(commits)] ==
            IF k = 0 THEN table
            ELSE IF \E r \in F[k - 1] : /\ r.session_id = session.session_id
                                        /\ r.commit_hash = commits[k].commit_hash
                 THEN F[k - 1]
                 ELSE F[k - 1] \cup {[session_id |-> session.session_id,
                                      commit_hash |-> commits[k].commit_hash,
                                      file |-> f]}
    IN F[Len(commits)]

\* INSERT OR REPLACE INTO session_issues
InsertSessionIssues(table, session, issues, f) ==
    LET F[k \in 0..Len(issues)] ==
            IF k = 0 THEN table
            ELSE {r \in F[k - 1] : ~(/\ r.session_id = session.session_id
                                     /\ r.issue_key = issues[k].issueKey
                                     /\ r.source = issues[k].source)}
                 \cup {[session_id |-> session.session_id,
                        issue_key |-> issues[k].issueKey,
                        source |-> issues[k].source,
                        confidence |-> issues[k].confidence,
                        file |-> f]}
    IN F[Len(issues)]

\* the session whose statement throws first
FirstRejected(ss, jira) ==
    CHOOSE k \in 1..Len(ss) :
        /\ TransactionThrows(SubSeq(ss, k, k), jira)
        /\ ~TransactionThrows(SubSeq(ss, 1, k - 1), jira)

\* lines 211 and 229: totalCommits after the commits of ss[1..nc] were
\* counted and totalIssues after the issues of ss[1..ni] were
CountedAfter(t, ss, nc, ni) ==
    LET C[k \in 0..Len(ss)] ==
            IF k = 0 THEN 0 ELSE C[k - 1] + Len(CommitsOf(ss[k]))
        I[k \in 0..Len(ss)] ==
            IF k = 0 THEN 0 ELSE I[k - 1] + Len(IssuesOfSession(ss[k]))
    IN [t EXCEPT !.commits = @ + C[nc], !.issues = @ + I[ni]]

\* the tables after the statements of lines 163-231 ran for ss[1..k]
RECURSIVE RunTransaction(_, _, _, _)
RunTransaction(db, ss, k, f) ==
    IF k = 0 THEN db
    ELSE LET d == RunTransaction(db, ss, k - 1, f)
             s == ss[k]
         IN [sessions |-> InsertSession(d.sessions, s, f),
             prompts |-> InsertPrompts(d.prompts, s, f),
             git_commits |-> InsertCommits(d.git_commits, CommitsOf(s)),
             session_commits |->
                 InsertSessionCommits(d.session_commits, s, CommitsOf(s), f),
             session_issues |->
                 InsertSessionIssues(d.session_issues, s, IssuesOfSession(s), f)]

Tables ==
    [sessions |-> sessions, prompts |-> prompts, git_commits |-> git_commits,
     session_commits |-> session_commits, session_issues |-> session_issues]

\* the file the loop of line 96 is at
logFile == logFiles[idx]

NeverProcessed(f) == FALSE

\* checkProcessed.get(logFile), lines 101-102
AlreadyProcessed(f) == \E r \in processing_log : r.log_file = f

\* the loop of line 96 goes on with the next file, or ends
PcAfterFile(i) == IF i < Len(logFiles) THEN "check" ELSE "summary"

IdxAfterFile(i) == IF i < Len(logFiles) THEN i + 1 ELSE i

PcAfterErrorAbort(i) == "summary"

\* the catch of lines 247-250 sits inside the loop: the batch goes on
PcAfterError(i) == PcAfterFile(i)

LedgerRow(f, nEntries, nSessions, nErrors) ==
    [log_file |-> f, entries_count |-> nEntries,
     sessions_created |-> nSessions, errors_count |-> nErrors]

dbVars == <<sessions, prompts, git_commits, session_commits, session_issues>>

fileVars == <<intake, content, processedDir, archive, aged>>

localVars == <<entries, parseErrors, allSessions>>

ClearLocals == entries' = <<>> /\ parseErrors' = <<>> /\ allSessions' = <<>>

\* the state before the first run, the intake files holding contents of C
InitFilesWith(C) ==
    /\ GroupOff /\ LibOff
    /\ intake = Files
    /\ content \in [Files -> C]
    /\ processedDir = {}
    /\ sessions = {} /\ prompts = <<>> /\ git_commits = {}
    /\ session_commits = {} /\ session_issues = {} /\ jira_issues = {}
    /\ processing_log = {}
    /\ pc = "idle" /\ logFiles = <<>> /\ idx = 0
    /\ entries = <<>> /\ parseErrors = <<>> /\ allSessions = <<>>
    /\ totals = ZeroTotals /\ summary = <<>>
    /\ outcome = [f \in Files |-> "none"]
    /\ readFiles = {} /\ ledgerWrites = {} /\ runEnd = "none"
    /\ fullRuns = 0 /\ runs = 0 /\ faults = 0 /\ captured = <<>>
    /\ archive = {} /\ aged = {} /\ polling = FALSE

InitFiles == InitFilesWith(FileContents)

\* processor.js is run as a script (its line 285 starts the run)
Init == InitFiles /\ watch = FALSE

\* the run is started by `claude-retro process --watch`
InitWatch == InitFiles /\ watch = TRUE

\* an environment fault is possible
MayFault == faults < MaxFaults

Fault == faults' = faults + 1

Discovered == SelectSeq(FileOrder, LAMBDA f : f \in intake)

\* what `import('../processor.js')` offers: the file has no export statement
ProcessorExports == {}

\* commands/process.js lines 7-20: the import runs the script, whose line
\* 285 starts the run; then neither processor.default nor
\* processor.processLogs is a function, and line 18 throws
processLogsOnceThrows == ProcessorExports \cap {"default", "processLogs"} = {}

\* commands/process.js lines 35-51: in watch mode setInterval is reached
\* when the `await processLogsOnce()` of line 41 returns; when it throws,
\* the catch of lines 56-58 ends the process
PollingAfterPass == watch /\ ~processLogsOnceThrows

\* lines 61-87: a run starts and finds files
StartRun ==
    /\ pc = "idle" /\ runs < MaxRuns
    /\ Discovered # <<>>
    /\ runs' = runs + 1
    /\ logFiles' = Discovered
    /\ idx' = 1
    /\ pc' = "check"
    /\ outcome' = [f \in Files |-> IF f \in intake THEN "discovered" ELSE "none"]
    /\ readFiles' = {} /\ ledgerWrites' = {}
    /\ runEnd' = "running"
    /\ UNCHANGED <<fileVars, dbVars, jira_issues, processing_log, localVars,
                   fullRuns, faults>>
    /\ UNCHANGED <<groupVars, libVars, captured, watch, polling>>
    /\ totals' = ZeroTotals /\ summary' = <<>>

\* lines 82-85: no file found, the run returns
StartRunNoFiles ==
    /\ pc = "idle" /\ runs < MaxRuns
    /\ Discovered = <<>>
    /\ runs' = runs + 1
    /\ logFiles' = <<>> /\ idx' = 0
    /\ outcome' = [f \in Files |-> "none"]
    /\ readFiles' = {} /\ ledgerWrites' = {}
    /\ runEnd' = "nofiles"
    /\ fullRuns' = fullRuns + 1
    /\ polling' = PollingAfterPass
    /\ UNCHANGED <<pc, fileVars, dbVars, jira_issues, processing_log, localVars,
                   faults>>
    /\ UNCHANGED <<groupVars, libVars, captured, watch>>
    /\ totals' = ZeroTotals /\ summary' = <<>>

\* lines 100-105: the file is in the ledger
SkipProcessed ==
    /\ pc = "check"
    /\ AlreadyProcessed(logFile)
    /\ outcome' = [outcome EXCEPT ![logFile] = "skipped"]
    /\ pc' = PcAfterFile(idx) /\ idx' = IdxAfterFile(idx)
    /\ UNCHANGED <<fileVars, dbVars, jira_issues, processing_log, localVars,
                   logFiles, readFiles, ledgerWrites, runEnd, fullRuns, runs, faults>>
    /\ UNCHANGED <<groupVars, libVars, captured, watch, polling>>
    /\ UNCHANGED <<totals, summary>>

\* lines 107-138: the file is read, parsed and grouped
ParseFile ==
    /\ pc = "check"
    /\ ~AlreadyProcessed(logFile)
    /\ LET parsed == parseLogFile(content[logFile])
       IN /\ entries' = parsed.entries
          /\ parseErrors' = parsed.errors
          /\ allSessions' = BuildSessions(parsed.entries)
          /\ pc' = IF Len(parsed.entries) = 0 THEN "empty" ELSE "persist"
          /\ totals' = [totals EXCEPT
                !.entries = @ + Len(parsed.entries),
                !.errors = @ + Len(parsed.errors),
                !.sessions = @ + Len(BuildSessions(parsed.entries))]
    /\ readFiles' = readFiles \cup {logFile}
    /\ UNCHANGED <<fileVars, dbVars, jira_issues, processing_log,
                   logFiles, idx, outcome, ledgerWrites, runEnd, fullRuns, runs,
                   faults>>
    /\ UNCHANGED <<groupVars, libVars, captured, watch, polling>>
    /\ UNCHANGED summary

\* the step at hand throws with the counters at t; the catch of lines
\* 247-250 counts the error
FileFailsWith(t) ==
    /\ outcome' = [outcome EXCEPT ![logFile] = "failed"]
    /\ pc' = PcAfterError(idx) /\ idx' = IdxAfterFile(idx)
    /\ ClearLocals
    /\ totals' = [t EXCEPT !.errors = @ + 1]
    /\ UNCHANGED <<fileVars, dbVars, jira_issues, logFiles, runEnd, fullRuns, runs>>
    /\ UNCHANGED <<groupVars, libVars, captured, watch, polling, summary>>

FileFails == FileFailsWith(totals)

\* readFileSync throws (line 373): parseLogFile rethrows
ParseFileFails ==
    /\ pc = "check"
    /\ ~AlreadyProcessed(logFile)
    /\ MayFault /\ Fault
    /\ readFiles' = readFiles \cup {logFile}
    /\ FileFails
    /\ UNCHANGED <<processing_log, ledgerWrites>>

\* lines 118-126: no valid entry; the file is marked and left where it is
\* (line 102 found no ledger row for it, so the primary key cannot conflict)
MarkEmpty ==
    /\ pc = "empty"
    /\ processing_log' =
           processing_log \cup {LedgerRow(logFile, 0, 0, Len(parseErrors))}
    /\ ledgerWrites' = ledgerWrites \cup {logFile}
    /\ outcome' = [outcome EXCEPT ![logFile] = "marked_empty"]
    /\ pc' = PcAfterFile(idx) /\ idx' = IdxAfterFile(idx)
    /\ ClearLocals
    /\ UNCHANGED <<fileVars, dbVars, jira_issues, logFiles, readFiles, runEnd,
                   fullRuns, runs, faults>>
    /\ UNCHANGED <<groupVars, libVars, captured, watch, polling>>
    /\ UNCHANGED <<totals, summary>>

\* insertLog.run of line 123 throws
MarkEmptyFails ==
    /\ pc = "empty"
    /\ MayFault /\ Fault
    /\ FileFails
    /\ UNCHANGED <<processing_log, readFiles, ledgerWrites>>

\* lines 162-234: the transaction commits
Persist ==
    /\ pc = "persist"
    /\ ~TransactionThrows(allSessions, jira_issues)
    /\ LET db == RunTransaction(Tables, allSessions, Len(allSessions), logFile)
       IN /\ sessions' = db.sessions
          /\ prompts' = db.prompts
          /\ git_commits' = db.git_commits
          /\ session_commits' = db.session_commits
          /\ session_issues' = db.session_issues
    /\ pc' = "ledger"
    /\ totals' = CountedAfter(totals, allSessions, Len(allSessions),
                              Len(allSessions))
    /\ UNCHANGED summary
    /\ UNCHANGED <<fileVars, jira_issues, processing_log, localVars,
                   logFiles, idx, outcome, readFiles, ledgerWrites, runEnd,
                   fullRuns, runs, faults>>
    /\ UNCHANGED <<groupVars, libVars, captured, watch, polling>>

\* a statement of the transaction violates a constraint: it rolls back;
\* the counters of lines 211 and 229 keep what they counted before it
PersistRejected ==
    /\ pc = "persist"
    /\ TransactionThrows(allSessions, jira_issues)
    /\ LET k == FirstRejected(allSessions, jira_issues)
       IN FileFailsWith(CountedAfter(totals, allSessions, k, k - 1))
    /\ UNCHANGED <<processing_log, readFiles, ledgerWrites, faults>>

\* a statement of the transaction fails in the environment: it rolls back;
\* the statement is one of session k, before or after line 211
PersistFails ==
    /\ pc = "persist"
    /\ MayFault /\ Fault
    /\ \E k \in 1..Len(allSessions) : \E nc \in {k - 1, k} :
          FileFailsWith(CountedAfter(totals, allSessions, nc, k - 1))
    /\ UNCHANGED <<processing_log, readFiles, ledgerWrites>>

\* lines 236-240: the ledger record is written
InsertLog ==
    /\ pc = "ledger"
    /\ processing_log' =
           processing_log \cup {LedgerRow(logFile, Len(entries), Len(allSessions),
                                          Len(parseErrors))}
    /\ ledgerWrites' = ledgerWrites \cup {logFile}
    /\ pc' = "move"
    /\ UNCHANGED <<fileVars, dbVars, jira_issues, localVars,
                   logFiles, idx, outcome, readFiles, runEnd, fullRuns, runs, faults>>
    /\ UNCHANGED <<groupVars, libVars, captured, watch, polling>>
    /\ UNCHANGED <<totals, summary>>

\* insertLog.run of line 240 throws
InsertLogFails ==
    /\ pc = "ledger"
    /\ MayFault /\ Fault
    /\ FileFails
    /\ UNCHANGED <<processing_log, readFiles, ledgerWrites>>

\* lines 242-246: the file is moved to .processed
MoveFile ==
    /\ pc = "move"
    /\ intake' = intake \ {logFile}
    /\ processedDir' = processedDir \cup {[name |-> logFile, run |-> runs]}
    /\ outcome' = [outcome EXCEPT ![logFile] = "archived"]
    /\ pc' = PcAfterFile(idx) /\ idx' = IdxAfterFile(idx)
    /\ ClearLocals
    /\ UNCHANGED <<content, archive, aged, dbVars, jira_issues, processing_log,
                   logFiles, readFiles, ledgerWrites, runEnd, fullRuns, runs,
                   faults>>
    /\ UNCHANGED <<groupVars, libVars, captured, watch, polling>>
    /\ UNCHANGED <<totals, summary>>

\* renameSync of line 244 throws
MoveFileFails ==
    /\ pc = "move"
    /\ MayFault /\ Fault
    /\ FileFails
    /\ UNCHANGED <<processing_log, readFiles, ledgerWrites>>

\* lines 253-264: the summary is printed
Summary ==
    /\ pc = "summary"
    /\ pc' = "sync"
    /\ UNCHANGED <<fileVars, dbVars, jira_issues, processing_log, localVars,
                   logFiles, idx, outcome, readFiles, ledgerWrites, runEnd,
                   fullRuns, runs, faults>>
    /\ UNCHANGED <<groupVars, libVars, captured, watch, polling>>
    /\ summary' = totals /\ UNCHANGED totals

\* processor.js lines 21-59, called at line 275: every file of .processed
\* older than thirty days is compressed into archive/ and removed
rotateOldLogs ==
    /\ archive' = archive \cup {e.name : e \in aged}
    /\ processedDir' = processedDir \ aged
    /\ aged' = {}

\* lines 274-277: the run ends; then the command that started it goes on
EndRun ==
    /\ pc' = "idle"
    /\ runEnd' = "completed"
    /\ fullRuns' = fullRuns + 1
    /\ rotateOldLogs
    /\ polling' = PollingAfterPass
    /\ UNCHANGED <<intake, content, dbVars, processing_log, localVars,
                   logFiles, idx, outcome, readFiles, ledgerWrites, runs, faults>>
    /\ UNCHANGED <<groupVars, libVars, captured, watch>>
    /\ UNCHANGED <<totals, summary>>

\* lines 266-277 with jira-client.js syncIssues: the cache is refreshed
SyncJira ==
    /\ pc = "sync"
    /\ jira_issues' = jira_issues \cup JiraAssigned
    /\ EndRun

\* Jira is not configured, or syncIssues fails and reports it (lines 143-147)
SyncSkipped ==
    /\ pc = "sync"
    /\ UNCHANGED jira_issues
    /\ EndRun

\* commands/process.js line 58: the command exits while the run it started
\* awaits the tracker (processor.js line 269); lines 274-277 never run
SyncCutByExit ==
    /\ pc = "sync"
    /\ watch /\ processLogsOnceThrows
    /\ pc' = "idle"
    /\ runEnd' = "exited"
    /\ polling' = PollingAfterPass
    /\ UNCHANGED <<fileVars, dbVars, jira_issues, processing_log, localVars,
                   logFiles, idx, outcome, readFiles, ledgerWrites, fullRuns,
                   runs, faults>>
    /\ UNCHANGED <<groupVars, libVars, captured, watch>>
    /\ UNCHANGED <<totals, summary>>

\* more than thirty days pass between two runs
TimePasses ==
    /\ pc = "idle" /\ runs < MaxRuns
    /\ aged # processedDir
    /\ aged' = processedDir
    /\ UNCHANGED <<intake, content, processedDir, archive, dbVars, jira_issues,
                   processing_log, pc, localVars, logFiles, idx, outcome,
                   readFiles, ledgerWrites, runEnd, fullRuns, runs, faults>>
    /\ UNCHANGED <<groupVars, libVars, captured, watch, polling>>
    /\ UNCHANGED <<totals, summary>>

\* the host ends the process in the middle of a run
Terminate ==
    /\ pc \in {"check", "empty", "persist", "ledger", "move", "summary", "sync"}
    /\ MayFault /\ Fault
    /\ pc' = "idle"
    /\ runEnd' = "terminated"
    /\ ClearLocals
    /\ UNCHANGED <<fileVars, dbVars, jira_issues, processing_log,
                   logFiles, idx, outcome, readFiles, ledgerWrites, fullRuns, runs>>
    /\ UNCHANGED <<groupVars, libVars, captured, watch, polling>>
    /\ UNCHANGED <<totals, summary>>

NextNoFault ==
    \/ StartRun \/ StartRunNoFiles
    \/ SkipProcessed \/ ParseFile
    \/ MarkEmpty
    \/ Persist \/ PersistRejected
    \/ InsertLog
    \/ MoveFile
    \/ Summary \/ SyncJira \/ SyncSkipped
    \/ TimePasses

\* a run started by `claude-retro process --watch`: with the tracker
\* configured the run is cut at line 269, without it the run ends (SyncSkipped)
NextWatch ==
    \/ StartRun \/ StartRunNoFiles
    \/ SkipProcessed \/ ParseFile
    \/ MarkEmpty
    \/ Persist \/ PersistRejected
    \/ InsertLog
    \/ MoveFile
    \/ Summary \/ SyncCutByExit \/ SyncSkipped
    \/ TimePasses

\* the pipeline of the model beside the capture command: the lines the
\* intake files start with
IntakeLines ==
    {JsonLine(1000, "s2", Null, Null),
     JsonLine(4000, "s2", Null, "feature/ABC-1-fix"),
     JsonLine(4000, "s1", "/r", Null),
     GarbageLine}

InitCapture ==
    /\ InitFilesWith(UNION {[1..n -> IntakeLines] : n \in 0..MaxLines})
    /\ watch = FALSE

\* the time of the first capture; every capture has a time of its own
CaptureTime == 7000

\* what the hook hands to the n-th capture (capture.js lines 56-70)
CaptureData(n) ==
    [timestamp |-> CaptureTime + n, session_id |-> "cap",
     user_prompt |-> ShortPrompt, cwd |-> "/r", git_branch |-> Null]

\* config.privacyMode (the default of capture.js line 50)
PrivacyMode == "summary"

\* the run at hand has read file f and has not moved it yet
BeingHandled(f) == pc \in {"persist", "ledger", "move"} /\ logFile = f

\* capture.js lines 83-85: appendFileSync adds the record to the file of
\* the month, creating the file when the directory has none of that name.
\* The command runs whatever the pipeline is doing.
Capture ==
    /\ pc # "off"
    /\ Len(captured) < MaxCaptures
    /\ \E f \in Files :
          LET line == logEntry(CaptureData(Len(captured)), PrivacyMode)
          IN /\ intake' = intake \cup {f}
             /\ content' = [content EXCEPT
                              ![f] = IF f \in intake THEN Append(@, line)
                                     ELSE <<line>>]
             /\ captured' = Append(captured,
                                   [file |-> f, timestamp |-> line.timestamp,
                                    run |-> runs, idle |-> pc = "idle",
                                    handled |-> BeingHandled(f)])
    /\ UNCHANGED <<processedDir, archive, aged, dbVars, jira_issues,
                   processing_log, pc, localVars, logFiles, idx, totals, summary,
                   outcome, readFiles, ledgerWrites, runEnd, fullRuns, runs,
                   faults>>
    /\ UNCHANGED <<groupVars, libVars, watch, polling>>

NextCapture ==
    \/ NextNoFault
    \/ Capture

Next ==
    \/ NextNoFault
    \/ ParseFileFails \/ MarkEmptyFails \/ PersistFails
    \/ InsertLogFails \/ MoveFileFails
    \/ Terminate

Spec == Init /\ [][Next]_vars

SpecNoFault == Init /\ [][NextNoFault]_vars

SpecWatch == InitWatch /\ [][NextWatch]_vars

SpecCapture == InitCapture /\ [][NextCapture]_vars

InitGroup ==
    /\ gpc = "call"
    /\ argPrompts \in GroupInputs
    /\ argGapMinutes \in GapMinutes
    /\ result = <<>>
    /\ PipelineOff /\ LibOff

\* sessions = groupSessions(prompts, gapMinutes)
CallGroupSessions ==
    /\ gpc = "call"
    /\ result' = groupSessions(argPrompts, argGapMinutes)
    /\ gpc' = "done"
    /\ UNCHANGED <<argPrompts, argGapMinutes>>
    /\ UNCHANGED <<pipelineVars, libVars>>

NextGroup == CallGroupSessions

SpecGroup == InitGroup /\ [][NextGroup]_vars

(***************************************************************************)
(* src/query.js : getSummaryStats.  A row of the joined table is a session *)
(* row with one of its issue links and one of its commit links.            *)
(***************************************************************************)

\* the columns of the side of a LEFT JOIN that has no match
NullRow ==
    [session_id |-> Null, issue_key |-> Null, source |-> Null,
     commit_hash |-> Null]

\* the right-hand rows a LEFT JOIN pairs the session with
LeftJoin(table, session_id) ==
    LET matches == {r \in table : r.session_id = session_id}
    IN IF matches = {} THEN {NullRow} ELSE matches

\* lines 99-102: FROM sessions s LEFT JOIN session_issues si ... LEFT JOIN
\* session_commits sc ... WHERE s.start_time >= ? AND s.end_time <= ?
JoinedRows(db, startTimestamp, endTimestamp) ==
    UNION {{[s |-> s, si |-> si, sc |-> sc] :
               si \in LeftJoin(db.session_issues, s.session_id),
               sc \in LeftJoin(db.session_commits, s.session_id)}
           : s \in {r \in db.sessions : /\ r.start_time >= startTimestamp
                                        /\ r.end_time <= endTimestamp}}

\* SUM(s.duration_minutes) over the given rows
RECURSIVE SumDurations(_)
SumDurations(rows) ==
    IF rows = {} THEN 0
    ELSE LET r == CHOOSE x \in rows : TRUE
         IN r.s.duration_minutes + SumDurations(rows \ {r})

\* lines 93-98; SUM and AVG of no row are NULL, and AVG is kept as the
\* fraction sum / count it is computed from
getSummaryStats(db, startTimestamp, endTimestamp) ==
    LET rows == JoinedRows(db, startTimestamp, endTimestamp)
    IN [total_sessions |-> Cardinality({r.s.session_id : r \in rows}),
        total_minutes |-> IF rows = {} THEN Null ELSE SumDurations(rows),
        unique_issues |->
            Cardinality({r.si.issue_key : r \in rows} \ {Null}),
        total_commits |->
            Cardinality({r.sc.commit_hash : r \in rows} \ {Null}),
        avg_session_minutes |->
            IF rows = {} THEN Null
            ELSE [sum |-> SumDurations(rows), count |-> Cardinality(rows)]]

(***************************************************************************)
(* SpecLib: a library function called once on an input of a bounded set.   *)
(***************************************************************************)

\* ---- parseLogFile ----
BlankLine ==
    [kind |-> "blank", fields |-> {}, timestamp |-> 0, session_id |-> Null,
     prompt_preview |-> Null, cwd |-> Null, git_branch |-> Null]

\* a JSON object without the property key
Without(l, key) == [l EXCEPT !.fields = @ \ {key}]

ParseLineKinds ==
    {BlankLine, GarbageLine,
     JsonLine(0, "s1", "/r", Null),
     JsonLine(30, "s1", "/r", Null),
     Without(JsonLine(30, Null, "/r", Null), "session_id"),
     Without(JsonLine(0, "s1", "/r", Null), "timestamp")}

ParseInputs == UNION {[1..n -> ParseLineKinds] : n \in 0..MaxParseLines}

\* ---- extractFromBranch, extractFromPath ----
BranchTexts ==
    {pre \o letters \o <<"-">> \o digits \o suf :
        pre \in {<<>>, <<"f", "e", "a", "t", "u", "r", "e", "/">>},
        letters \in {<<"A", "B">>, <<"P", "R", "O", "J">>, <<"a", "b">>},
        digits \in {<<"7">>, <<"1", "2", "3">>},
        suf \in {<<>>, <<"-", "f", "i", "x">>, <<"x">>}}

PathTexts ==
    {pre \o seg \o suf :
        pre \in {<<"/">>, <<"/", "h", "o", "m", "e", "/", "u", "/">>},
        seg \in {<<"A", "B", "-", "7">>, <<"A", "B", "-", "7", "x">>,
                 <<"T", "A", "S", "K", "-", "7">>,
                 <<"T", "A", "S", "K", "-", "7", "x">>,
                 <<"x", "A", "B", "-", "7">>, <<"a", "p", "p">>},
        suf \in {<<>>, <<"/">>, <<"/", "a", "p", "p">>,
                 <<"/", "A", "B", "-", "8", "/", "a", "p", "p">>}}

\* ---- extractFromSession ----
SessionPrompts ==
    [timestamp : {1000}, session_id : {"s1"},
     prompt_preview : {Null, "see ABC-1", "wip"},
     cwd : {Null, "/r", "/w/ABC-1/app"},
     git_branch : {Null, "feature/ABC-1-fix"}, line : {0}]

SessionInputs ==
    UNION {{[prompts |-> ps] : ps \in [1..n -> SessionPrompts]} : n \in 1..MaxPrompts}

CommitLists == {<<>>, RepoLog("/r")}

\* ---- lines 199-209 of processor.js on given tables ----
CommitRecords ==
    [commit_hash : {"c1"}, timestamp : {4000, 4001}, message : {"m1", "m2"},
     author : {"dev"}, repo_path : {"/r"}]

CommitTables == {{}} \cup {{c} : c \in CommitRecords}

LinkTables ==
    {{}, {[session_id |-> "s1", commit_hash |-> "c1", file |-> "a.jsonl"]}}

CommitInputs ==
    [git_commits : CommitTables, session_commits : LinkTables,
     session : {[session_id |-> "s1"], [session_id |-> "s2"]},
     commits : UNION {[1..n -> CommitRecords] : n \in 0..MaxCommits}]

\* the loop of lines 199-209: both tables after it
insertCommits(a) ==
    [git_commits |-> InsertCommits(a.git_commits, a.commits),
     session_commits |->
         InsertSessionCommits(a.session_commits, a.session, a.commits, "b.jsonl")]

\* ---- getCommitsFromRepos ----
RepoPathValues == {Null, "/r", "/q", "/bad", "/w/ABC-1/app"}

TimeRanges == {[startTime |-> 0, endTime |-> 9000],
               [startTime |-> 3500, endTime |-> 5000]}

RepoInputs ==
    [repoPaths : UNION {[1..n -> RepoPathValues] : n \in 0..MaxRepoPaths},
     range : TimeRanges]

\* ---- getSummaryStats ----
StoredSessions ==
    {[session_id |-> "s1", start_time |-> 100, end_time |-> 200,
      duration_minutes |-> 10],
     [session_id |-> "s2", start_time |-> 300, end_time |-> 400,
      duration_minutes |-> 20],
     [session_id |-> "s3", start_time |-> 900, end_time |-> 1000,
      duration_minutes |-> 40]}

StoredIssueLinks ==
    {[session_id |-> "s1", issue_key |-> "ABC-1", source |-> "branch"],
     [session_id |-> "s1", issue_key |-> "ABC-2", source |-> "prompt"],
     [session_id |-> "s2", issue_key |-> "ABC-1", source |-> "branch"]}

StoredCommitLinks ==
    {[session_id |-> "s1", commit_hash |-> "c1"],
     [session_id |-> "s1", commit_hash |-> "c2"],
     [session_id |-> "s2", commit_hash |-> "c3"]}

StatsInputs ==
    [db : [sessions : {StoredSessions},
           session_issues : SUBSET StoredIssueLinks,
           session_commits : SUBSET StoredCommitLinks],
     range : {[startTimestamp |-> 0, endTimestamp |-> 500],
              [startTimestamp |-> 250, endTimestamp |-> 500],
              [startTimestamp |-> 500, endTimestamp |-> 600]}]

\* ---- captureCommand, then parseLogFile on the line it wrote ----
CaptureInputs ==
    [data : [timestamp : {7000}, session_id : {"s1"},
             user_prompt : {NullText, <<>>, ShortPrompt, LongPrompt},
             cwd : {Null, "/r"}, git_branch : {Null, "feature/ABC-1-fix"}],
     privacyMode : PrivacyModes]

\* ---- lines 128-185 of processor.js on the entries of one file ----
StoredEntries ==
    [timestamp : {1000, 4000}, session_id : {"s1", "x-s1"},
     prompt_preview : {Null}, cwd : {"/r", "/r-x"}, git_branch : {Null},
     line : {0}]

\* the entries of a file, each with the number of its line
EntryLists ==
    UNION {{[i \in 1..n |-> [es[i] EXCEPT !.line = i]] : es \in [1..n -> StoredEntries]}
              : n \in 0..MaxEntries}

\* lines 163-185: the sessions and prompts tables after the loop has run
\* insertSession and insertPrompt for every session, on empty tables
storeSessions(ss) ==
    LET F[k \in 0..Len(ss)] ==
            IF k = 0 THEN [sessions |-> {}, prompts |-> <<>>]
            ELSE [sessions |-> InsertSession(F[k - 1].sessions, ss[k], "a.jsonl"),
                  prompts |-> InsertPrompts(F[k - 1].prompts, ss[k], "a.jsonl")]
    IN F[Len(ss)]

InitLib ==
    /\ lpc = "call"
    /\ \/ fn = "parseLogFile" /\ arg \in ParseInputs
       \/ fn = "storeSessions" /\ arg \in EntryLists
       \/ fn = "captureCommand" /\ arg \in CaptureInputs
       \/ fn = "getSummaryStats" /\ arg \in StatsInputs
       \/ fn = "getCommitsFromRepos" /\ arg \in RepoInputs
       \/ fn = "extractFromBranch"
          /\ arg \in [text : BranchTexts, patterns : PatternLists]
       \/ fn = "extractFromPath"
          /\ arg \in [text : PathTexts, patterns : PatternLists]
       \/ fn = "extractFromSession"
          /\ arg \in [session : SessionInputs, commits : CommitLists,
                      patterns : PatternLists]
       \/ fn = "insertCommits" /\ arg \in CommitInputs
    /\ ret = <<>>
    /\ PipelineOff /\ GroupOff

Returns(value) ==
    /\ ret' = value
    /\ lpc' = "done"
    /\ UNCHANGED <<fn, arg>>
    /\ UNCHANGED <<pipelineVars, groupVars>>

CallParseLogFile ==
    /\ lpc = "call" /\ fn = "parseLogFile"
    /\ Returns(parseLogFile(arg))

CallExtractFromBranch ==
    /\ lpc = "call" /\ fn = "extractFromBranch"
    /\ Returns(extractFromBranch(arg.text, arg.patterns))

CallExtractFromPath ==
    /\ lpc = "call" /\ fn = "extractFromPath"
    /\ Returns(extractFromPath(arg.text, arg.patterns))

CallExtractFromSession ==
    /\ lpc = "call" /\ fn = "extractFromSession"
    /\ Returns(extractFromSession(arg.session, arg.commits, arg.patterns))

CallInsertCommits ==
    /\ lpc = "call" /\ fn = "insertCommits"
    /\ Returns(insertCommits(arg))

\* the commits returned, and the paths getCommits was called with (line 108)
CallGetCommitsFromRepos ==
    /\ lpc = "call" /\ fn = "getCommitsFromRepos"
    /\ Returns([commits |-> getCommitsFromRepos(arg.repoPaths, arg.range.startTime,
                                                 arg.range.endTime),
                queried |-> uniqueRepos(arg.repoPaths)])

CallGetSummaryStats ==
    /\ lpc = "call" /\ fn = "getSummaryStats"
    /\ Returns(getSummaryStats(arg.db, arg.range.startTimestamp,
                               arg.range.endTimestamp))

\* the line capture appends to an empty intake file, and what parseLogFile
\* makes of the file
CallCaptureCommand ==
    /\ lpc = "call" /\ fn = "captureCommand"
    /\ Returns([written |-> logEntry(arg.data, arg.privacyMode),
                parsed |-> parseLogFile(<<logEntry(arg.data, arg.privacyMode)>>)])

\* allSessions as built at lines 128-135, and the tables after lines 163-185
CallStoreSessions ==
    /\ lpc = "call" /\ fn = "storeSessions"
    /\ Returns([allSessions |-> BuildSessions(arg),
                stored |-> storeSessions(BuildSessions(arg))])

NextLib ==
    \/ CallParseLogFile
    \/ CallStoreSessions
    \/ CallCaptureCommand
    \/ CallGetSummaryStats
    \/ CallGetCommitsFromRepos
    \/ CallExtractFromBranch \/ CallExtractFromPath \/ CallExtractFromSession
    \/ CallInsertCommits

SpecLib == InitLib /\ [][NextLib]_vars

(***************************************************************************)
(* Properties                                                              *)
(***************************************************************************)
InLedger(f) == \E r \in processing_log : r.log_file = f

\* a run that reached its end (it was not ended by the host)
RunOver == pc = "idle" /\ runEnd = "completed"

PromptRowsOf(f) == {i \in 1..Len(prompts) : prompts[i].file = f}

HasRowsOf(f) ==
    \/ \E r \in sessions : r.file = f
    \/ PromptRowsOf(f) # {}
    \/ \E r \in session_commits : r.file = f
    \/ \E r \in session_issues : r.file = f

\* the sessions table without the history field
SessionRows ==
    {[session_id |-> r.session_id, start_time |-> r.start_time,
      end_time |-> r.end_time, cwd |-> r.cwd,
      duration_minutes |-> r.duration_minutes,
      prompt_count |-> r.prompt_count] : r \in sessions}

\* C1: when a run is over, a file whose processing failed in it has no
\* session, prompt, commit-link or issue-link row, no ledger record, and is
\* still in the intake directory.
C1_FailedFileLeavesNothing ==
    RunOver =>
        \A f \in Files :
            outcome[f] = "failed" =>
                /\ ~HasRowsOf(f)
                /\ ~InLedger(f)
                /\ f \in intake

\* C2: no entry of a file is stored more than once in the prompts table,
\* whatever runs, faults and host terminations came before.
C2_EntriesIngestedAtMostOnce ==
    \A i, j \in 1..Len(prompts) :
        (prompts[i].file = prompts[j].file /\ prompts[i].line = prompts[j].line)
            => i = j

\* C3: once a full run is over, a further run adds no session row and no
\* prompt row and leaves the session rows as they were.
C3_SecondRunAddsNothing ==
    [][fullRuns >= 1 => (SessionRows' = SessionRows /\ prompts' = prompts)]_vars

\* C4: when the file at hand is in the ledger, the step taken for it reads
\* no content, writes no table, moves no file, and marks it skipped (unless
\* the host ends the run there); a skipped file is never read by that run.
C4_LedgeredFileIsSkipped ==
    /\ [][(pc = "check" /\ InLedger(logFile)) =>
            /\ UNCHANGED <<dbVars, jira_issues, processing_log, fileVars>>
            /\ readFiles' = readFiles
            /\ (outcome'[logFile] = "skipped" \/ pc' = "idle")]_vars
    /\ [](\A f \in Files :
            outcome[f] = "skipped" => (f \notin readFiles /\ f \in intake))

C4_Witness ==
    \E f \in Files : outcome[f] = "skipped" /\ InLedger(f) /\ RunOver

\* C5: when a run is over, every file it wrote a ledger record for has left
\* the intake directory.
C5_MarkedFilesAreRelocated ==
    RunOver => \A f \in ledgerWrites : f \notin intake

Attempted(f) == outcome[f] \in {"skipped", "failed", "marked_empty", "archived"}

\* the session ids and the entries the pipeline builds from file f
SessionIdsOf(f) ==
    LET ss == BuildSessions(parseLogFile(content[f]).entries)
    IN {ss[k].session_id : k \in 1..Len(ss)}

EntryLinesOf(f) ==
    LET es == parseLogFile(content[f]).entries
    IN {es[i].line : i \in 1..Len(es)}

KeepsItsRows(f) ==
    /\ InLedger(f)
    /\ \A l \in EntryLinesOf(f) : \E i \in PromptRowsOf(f) : prompts[i].line = l
    /\ \A id \in SessionIdsOf(f) : \E r \in sessions : r.session_id = id

\* C6: once the loop over the batch has ended, every discovered file has
\* been attempted, whatever failed before it; and a file archived by the run
\* keeps its ledger record, its prompt rows and its sessions whatever
\* happens to the files after it.
C6_BatchSurvivesFailure ==
    /\ (pc \in {"summary", "sync"} \/ RunOver) =>
            \A f \in Range(logFiles) : Attempted(f)
    /\ \A f \in Files : outcome[f] = "archived" => KeepsItsRows(f)

C6_Witness ==
    /\ RunOver
    /\ Len(logFiles) = 2
    /\ outcome[logFiles[1]] = "failed"
    /\ outcome[logFiles[2]] = "archived"

\* the position of input entry e in the output: <<session, index>>
PlacesOf(e) ==
    {<<k, j>> \in (1..Len(result)) \X (1..MaxLen + 1) :
        j <= Len(result[k].prompts) /\ result[k].prompts[j] = e}

\* C7: for a non-empty input, every input entry is in exactly one session,
\* no session is empty and no entry is invented, and inside a session the
\* entries ascend by timestamp, equal timestamps in input order.
C7_GroupSessionsPartitions ==
    (gpc = "done" /\ Len(argPrompts) > 0) =>
        /\ \A i \in 1..Len(argPrompts) : Cardinality(PlacesOf(argPrompts[i])) = 1
        /\ \A k \in 1..Len(result) :
            /\ Len(result[k].prompts) > 0
            /\ \A j \in 1..Len(result[k].prompts) :
                   result[k].prompts[j] \in Range(argPrompts)
            /\ \A j \in 1..(Len(result[k].prompts) - 1) :
                LET a == result[k].prompts[j]
                    b == result[k].prompts[j + 1]
                IN \/ a.timestamp < b.timestamp
                   \/ (a.timestamp = b.timestamp /\ a.line < b.line)

\* an unsorted input with a tie inside one session, and a second session
C7_Witness ==
    /\ gpc = "done"
    /\ Len(result) >= 2
    /\ argPrompts # SortByTimestamp(argPrompts)
    /\ \E k \in 1..Len(result) :
          /\ Len(result[k].prompts) >= 2
          /\ result[k].prompts[1].timestamp = result[k].prompts[2].timestamp

\* C8: neighbours inside a session are at most gapMinutes apart, and the
\* last entry of a session and the first of the next are more than
\* gapMinutes apart (timestamps in seconds).
C8_GapsBoundSessions ==
    gpc = "done" =>
        /\ \A k \in 1..Len(result) :
             \A j \in 1..(Len(result[k].prompts) - 1) :
                result[k].prompts[j + 1].timestamp - result[k].prompts[j].timestamp
                    <= argGapMinutes * 60
        /\ \A k \in 1..(Len(result) - 1) :
             result[k + 1].prompts[1].timestamp - Last(result[k].prompts).timestamp
                 > argGapMinutes * 60

\* a gap of exactly gapMinutes inside a session, followed by a new session
C8_Witness ==
    /\ gpc = "done"
    /\ argGapMinutes > 0
    /\ Len(result) >= 2
    /\ \E k \in 1..Len(result) :
          /\ Len(result[k].prompts) >= 2
          /\ result[k].prompts[2].timestamp - result[k].prompts[1].timestamp
                = argGapMinutes * 60

\* C9: every returned session has durationMinutes = (endTime - startTime) / 60
\* (in units of 1/MinuteScale minute).
C9_DurationIsSpanOverSixty ==
    gpc = "done" =>
        \A k \in 1..Len(result) :
            result[k].duration_minutes
                = ((result[k].end_time - result[k].start_time) * MinuteScale) \div 60

\* C10: no session built for a file holds entries of two session keys.
C10_SessionsNeverMixKeys ==
    \A k \in 1..Len(allSessions) :
        \A i, j \in 1..Len(allSessions[k].prompts) :
            allSessions[k].prompts[i].session_id = allSessions[k].prompts[j].session_id

\* two sessions of different keys that start at the same second
C10_Witness ==
    \E k, m \in 1..Len(allSessions) :
        /\ allSessions[k].original_session_id # allSessions[m].original_session_id
        /\ allSessions[k].start_time = allSessions[m].start_time

LibDone(f) == lpc = "done" /\ fn = f

\* the fixed confidence of a source
SourceConfidence(source) ==
    CASE source = "branch" -> BranchConfidence
      [] source = "commit" -> CommitConfidence
      [] source = "prompt" -> PromptConfidence
      [] source = "directory" -> DirectoryConfidence

\* the pairs <<key, source>> of the keys the four extractors find for the
\* arguments a of extractFromSession
FoundIn(a) ==
    LET ps == a.session.prompts
        keysOf(issues) == {issues[i].issueKey : i \in 1..Len(issues)}
    IN UNION {
        IF ps[1].git_branch = Null THEN {}
        ELSE {<<k, "branch">> : k \in keysOf(IssuesInBranch[ps[1].git_branch, a.patterns])},
        UNION {{<<k, "commit">> :
                   k \in keysOf(IssuesInCommitMessage[a.commits[i].message, a.patterns])}
               : i \in 1..Len(a.commits)},
        UNION {IF ps[i].prompt_preview = Null THEN {}
               ELSE {<<k, "prompt">> :
                        k \in keysOf(IssuesInPrompt[ps[i].prompt_preview, a.patterns])}
               : i \in 1..Len(ps)},
        UNION {IF ps[i].cwd = Null THEN {}
               ELSE {<<k, "directory">> :
                        k \in keysOf(IssuesInPath[ps[i].cwd, a.patterns])}
               : i \in 1..Len(ps)}}

SourcesOf(a, key) == {f[2] : f \in {g \in FoundIn(a) : g[1] = key}}

\* C11: extractFromSession returns one record for every key found and no
\* two for the same key; the confidence of the record is the greatest of
\* the fixed confidences of the sources the key was found in; a key found
\* in the branch and in a prompt text only has a record of source branch
\* and confidence 1.0.
C11_OneRecordPerKeyAtMaxConfidence ==
    LibDone("extractFromSession") =>
        /\ \A i, j \in 1..Len(ret) : ret[i].issueKey = ret[j].issueKey => i = j
        /\ {ret[i].issueKey : i \in 1..Len(ret)} = {f[1] : f \in FoundIn(arg)}
        /\ \A i \in 1..Len(ret) :
              /\ ret[i].confidence
                    = MaxOf({SourceConfidence(s) : s \in SourcesOf(arg, ret[i].issueKey)})
              /\ SourcesOf(arg, ret[i].issueKey) = {"branch", "prompt"}
                    => /\ ret[i].source = "branch"
                       /\ ret[i].confidence = BranchConfidence

\* ABC-1 is found in the branch and in a prompt text, nowhere else
C11_Witness ==
    /\ LibDone("extractFromSession")
    /\ SourcesOf(arg, "ABC-1") = {"branch", "prompt"}
    /\ ret = <<[issueKey |-> "ABC-1", source |-> "branch",
                confidence |-> BranchConfidence]>>

\* the file at hand has a session whose issue ABC-1 is found in the branch
\* and in a commit message, and the tracker cache holds the key
TieAtHand ==
    /\ pc = "persist"
    /\ "ABC-1" \in jira_issues
    /\ \E k \in 1..Len(allSessions) :
          LET issues == IssuesOfSession(allSessions[k])
          IN \E i \in 1..Len(issues) :
                /\ issues[i].issueKey = "ABC-1"
                /\ issues[i].source = "branch,commit"

\* C12: when a key is found for a session in the branch and in a commit
\* message, the transaction of the file commits and stores for the session
\* and the key a record whose source is branch,commit and whose confidence
\* is 1.0.
C12_TiedSourcesAreStored ==
    [][TieAtHand =>
          /\ pc' = "ledger"
          /\ \E r \in session_issues' :
                /\ r.issue_key = "ABC-1"
                /\ r.source = "branch,commit"
                /\ r.confidence = BranchConfidence]_vars

\* C13: every record extractFromSession returns has a source that is one
\* of branch, commit, prompt, directory and a confidence between 0 and 1.
C13_IssueRecordsAreStorable ==
    LibDone("extractFromSession") =>
        \A i \in 1..Len(ret) :
            /\ ret[i].source \in IssueSources
            /\ ret[i].confidence >= 0 /\ ret[i].confidence <= 10

\* the issue records of the sessions of the file at hand
IssuesAtHand ==
    UNION {Range(IssuesOfSession(allSessions[k])) : k \in 1..Len(allSessions)}

\* the file at hand yields issue keys, each on a record with one source
\* label, and the tracker cache holds none of them
UncachedKeysAtHand ==
    /\ pc = "persist"
    /\ IssuesAtHand # {}
    /\ \A issue \in IssuesAtHand :
          /\ issue.source \in IssueSources
          /\ issue.issueKey \notin jira_issues

\* C14: a file whose sessions yield issue keys that the tracker cache does
\* not hold is ingested: its transaction commits with the session rows,
\* the prompt rows and the issue links of the file.
C14_EmptyCacheDoesNotBlock ==
    [][UncachedKeysAtHand =>
          /\ pc' = "ledger"
          /\ \E r \in sessions' : r.file = logFile
          /\ \E i \in 1..Len(prompts') : prompts'[i].file = logFile
          /\ \A issue \in IssuesAtHand :
                \E r \in session_issues' : r.issue_key = issue.issueKey]_vars

\* C15: the step that ends a run, also a run that found no file in the
\* intake directory, leaves in the processed directory no file older than
\* thirty days: each is in the archive directory.
C15_EveryRunRotates ==
    [][fullRuns' = fullRuns + 1 =>
          /\ aged' \cap processedDir' = {}
          /\ \A e \in aged : e.name \in archive']_vars

\* the command has finished the pass it started
PassOver == pc = "idle" /\ runEnd \in {"completed", "nofiles", "exited"}

\* C16: in watch mode, once the first pass is over the command keeps
\* polling: the timer that runs the later passes is installed.
C16_WatchKeepsPolling == (watch /\ PassOver) => polling

\* the line is a JSON record in which timestamp and session key are present
HasRequired(l) ==
    l.kind = "json" /\ "timestamp" \in l.fields /\ "session_id" \in l.fields

\* C17: the entries parseLogFile returns are, in file order, exactly the
\* non-blank lines that are JSON records with timestamp and session key
\* present (whatever the timestamp, 0 included), and its errors are, one
\* each, exactly the other non-blank lines.
C17_LinesAreParsedIndependently ==
    LibDone("parseLogFile") =>
        LET nb == SelectSeq(arg, LAMBDA l : l.kind # "blank")
            positions == [j \in 1..Len(nb) |-> j]
        IN /\ [i \in 1..Len(ret.entries) |-> ret.entries[i].line]
                 = SelectSeq(positions, LAMBDA j : HasRequired(nb[j]))
           /\ [i \in 1..Len(ret.errors) |-> ret.errors[i].line]
                 = SelectSeq(positions, LAMBDA j : ~HasRequired(nb[j]))

\* C18: without custom patterns, extractFromBranch of feature/PROJ-123-fix
\* returns the one record PROJ-123, branch, 1.0.
C18_BranchScenario ==
    (/\ LibDone("extractFromBranch")
     /\ arg.patterns = <<>>
     /\ arg.text = <<"f", "e", "a", "t", "u", "r", "e", "/", "P", "R", "O", "J",
                     "-", "1", "2", "3", "-", "f", "i", "x">>)
        => ret = <<[issueKey |-> "PROJ-123", source |-> "branch",
                    confidence |-> BranchConfidence]>>

\* the segments of a path, in order: the texts between its slashes
RECURSIVE Segments(_)
Segments(t) ==
    IF \A i \in 1..Len(t) : t[i] # "/" THEN <<t>>
    ELSE LET i == CHOOSE j \in 1..Len(t) :
                      t[j] = "/" /\ \A m \in 1..(j - 1) : t[m] # "/"
         IN <<SubSeq(t, 1, i - 1)>> \o Segments(SubSeq(t, i + 1, Len(t)))

\* the segment is a key: capital letters, a dash, digits, and nothing else
IsKeySegment(seg) ==
    seg # <<>> /\ KeyAt(seg, 1, Pattern("", 0, FALSE, "", FALSE)) = Len(seg)

\* the keys that occupy a whole segment of the path, in order
KeySegments(t) ==
    LET segs == SelectSeq(Segments(t), IsKeySegment)
    IN [i \in 1..Len(segs) |-> UpperString(segs[i], 1, Len(segs[i]))]

\* C19: without custom patterns, extractFromPath returns a record
\* (directory, 0.5) for exactly the keys that occupy a whole segment of the
\* path, wherever the segment lies.
C19_KeysAreWholeSegments ==
    (LibDone("extractFromPath") /\ arg.patterns = <<>>)
        => ret = IssuesOf(KeySegments(arg.text), "directory", DirectoryConfidence)

\* C20: the commit loop leaves every row of git_commits as it was, keeps
\* one row for a hash (the first one inserted), and links every commit of
\* the session to the session.
C20_CommitRowsAreImmutable ==
    LibDone("insertCommits") =>
        /\ arg.git_commits \subseteq ret.git_commits
        /\ \A r1, r2 \in ret.git_commits :
              r1.commit_hash = r2.commit_hash => r1 = r2
        /\ \A i \in 1..Len(arg.commits) :
              /\ \E r \in ret.git_commits :
                    r.commit_hash = arg.commits[i].commit_hash
              /\ arg.git_commits = {}
                    => \E j \in 1..i :
                          /\ arg.commits[j] \in ret.git_commits
                          /\ \A m \in 1..(j - 1) :
                                arg.commits[m].commit_hash # arg.commits[j].commit_hash
              /\ \E l \in ret.session_commits :
                    /\ l.session_id = arg.session.session_id
                    /\ l.commit_hash = arg.commits[i].commit_hash

\* c1 is stored with message m1 and linked to s1; session s2 inserts it
\* again with message m2
C20_Witness ==
    /\ LibDone("insertCommits")
    /\ arg.session.session_id = "s2"
    /\ \E r \in arg.git_commits : r.commit_hash = "c1" /\ r.message = "m1"
    /\ \E l \in arg.session_commits : l.session_id = "s1" /\ l.commit_hash = "c1"
    /\ \E i \in 1..Len(arg.commits) :
          arg.commits[i].commit_hash = "c1" /\ arg.commits[i].message = "m2"
    /\ ret.git_commits = arg.git_commits
    /\ \E l \in ret.session_commits : l.session_id = "s2" /\ l.commit_hash = "c1"
    /\ \E l \in ret.session_commits : l.session_id = "s1" /\ l.commit_hash = "c1"

\* a run that got past its startup has returned
RunReturned == pc = "idle" /\ runEnd \in {"completed", "nofiles"}

\* C21: every run that returns has printed the summary, with the counts of
\* entries, sessions, commits, issues and errors the run reached, also
\* when files failed, when all were skipped and when no file was found.
C21_EveryRunReportsSummary ==
    RunReturned => (summary # <<>> /\ summary = totals)

\* the commits of the repositories among paths whose log can be read, in
\* the range of a
CommitsInRange(paths, a) ==
    UNION {{c \in Range(RepoLog(p)) :
               a.range.startTime <= c.timestamp /\ c.timestamp <= a.range.endTime}
           : p \in (paths \cap GitRepos) \ FailingRepos}

\* C22: getCommitsFromRepos calls getCommits once for every distinct path;
\* it returns, each once, the commits in range of the listed repositories
\* whose log can be read (a path that is no repository or whose log fails
\* contributes nothing and stops nothing), sorted ascending by timestamp.
C22_ReposQueriedOnceAndMerged ==
    LibDone("getCommitsFromRepos") =>
        LET paths == Range(arg.repoPaths) \ {Null}
        IN /\ Range(ret.queried) = paths
           /\ Len(ret.queried) = Cardinality(paths)
           /\ Range(ret.commits) = CommitsInRange(paths, arg)
           /\ Len(ret.commits) = Cardinality(CommitsInRange(paths, arg))
           /\ \A i \in 1..(Len(ret.commits) - 1) :
                 ret.commits[i].timestamp <= ret.commits[i + 1].timestamp

\* /q is listed twice, around the repository whose log fails; its two
\* commits come back once each, oldest first
C22_Witness ==
    /\ LibDone("getCommitsFromRepos")
    /\ arg.repoPaths = <<"/q", "/bad", "/q">>
    /\ Len(ret.commits) = 2
    /\ ret.commits[1].commit_hash = "c2" /\ ret.commits[2].commit_hash = "c3"

\* the sessions of a.db inside the range of a, each once
SessionsInRange(a) ==
    {s \in a.db.sessions : /\ s.start_time >= a.range.startTimestamp
                           /\ s.end_time <= a.range.endTimestamp}

\* the sum of duration_minutes over a set of session rows
RECURSIVE SumOfSessions(_)
SumOfSessions(S) ==
    IF S = {} THEN 0
    ELSE LET s == CHOOSE x \in S : TRUE
         IN s.duration_minutes + SumOfSessions(S \ {s})

\* C23: when the range holds sessions, getSummaryStats reports
\* total_minutes as the sum of duration_minutes over the distinct sessions
\* of the range, whatever links they have, and avg_session_minutes as that
\* sum divided by total_sessions.
C23_TotalsCountSessionsOnce ==
    (LibDone("getSummaryStats") /\ SessionsInRange(arg) # {}) =>
        /\ ret.total_sessions = Cardinality(SessionsInRange(arg))
        /\ ret.total_minutes = SumOfSessions(SessionsInRange(arg))
        /\ ret.avg_session_minutes.sum * ret.total_sessions
              = SumOfSessions(SessionsInRange(arg)) * ret.avg_session_minutes.count

\* what parseLogFile makes of file f
ParsedOf(f) == parseLogFile(content[f])

\* the run took file f up (it did not skip it) and f holds rejected lines
HandledWithRejects(f) ==
    /\ outcome[f] \in {"failed", "marked_empty", "archived"}
    /\ Len(ParsedOf(f).errors) > 0

\* C24: when a run is over, every file it took up that holds rejected
\* lines is marked processed: its valid entries are in the prompts table
\* and its ledger record counts its valid entries, the sessions built from
\* them and its rejected lines.
C24_RejectedLinesDoNotBlockFile ==
    RunOver =>
        \A f \in Range(logFiles) :
            HandledWithRejects(f) =>
                /\ LedgerRow(f, Len(ParsedOf(f).entries),
                             Len(BuildSessions(ParsedOf(f).entries)),
                             Len(ParsedOf(f).errors)) \in processing_log
                /\ \A l \in EntryLinesOf(f) :
                      \E i \in PromptRowsOf(f) : prompts[i].line = l

\* C30: the record capture writes for a prompt comes back from the parser
\* as one entry; in summary and full mode its prompt_preview is the
\* privacy-filtered text that was written (the first 200 characters, or
\* the whole prompt), and in minimal mode it is absent.
C30_PreviewRoundTrips ==
    LibDone("captureCommand") =>
        /\ Len(ret.parsed.entries) = 1
        /\ LET preview == ret.parsed.entries[1].prompt_preview
               written == ret.written.user_prompt
           IN IF arg.privacyMode = "minimal" \/ written = <<>>
              THEN preview = Null
              ELSE preview # Null /\ preview = written

\* the k-th captured record is in the prompts table
Ingested(k) ==
    \E i \in 1..Len(prompts) : prompts[i].timestamp = captured[k].timestamp

\* the k-th captured record is in a file of the intake directory
InIntake(k) ==
    /\ captured[k].file \in intake
    /\ \E j \in 1..Len(content[captured[k].file]) :
          content[captured[k].file][j].timestamp = captured[k].timestamp

\* C25: once a run that started after a capture (made between two runs)
\* is over, the captured entry is in the prompts table, or its file still
\* waits in the intake directory without a ledger record, so that a later
\* run takes it up.
C25_CapturedEntriesGetIngested ==
    RunOver =>
        \A k \in 1..Len(captured) :
            (captured[k].idle /\ captured[k].run < runs) =>
                \/ Ingested(k)
                \/ (InIntake(k) /\ ~InLedger(captured[k].file))

\* C26: a record appended to a file while a run handled that file (after
\* reading it, before moving it) is in the prompts table or in a file of
\* the intake directory.
C26_RacingCaptureIsNotLost ==
    \A k \in 1..Len(captured) :
        captured[k].handled => (Ingested(k) \/ InIntake(k))

\* the issue links stored for the session, as records of the extractor
LinksOf(table, session_id) ==
    {[issueKey |-> r.issue_key, source |-> r.source, confidence |-> r.confidence]
        : r \in {x \in table : x.session_id = session_id}}

\* C28: when the transaction of a file commits, the issue links stored for
\* each of its sessions are exactly the records extractFromSession returns
\* for the session and its correlated commits, also for a session none of
\* whose entries has a cwd.
C28_StoredLinksAreTheExtractedOnes ==
    [][(pc = "persist" /\ pc' = "ledger") =>
          \A k \in 1..Len(allSessions) :
              LinksOf(session_issues', allSessions[k].session_id)
                  = Range(extractFromSession(allSessions[k],
                                             CommitsOf(allSessions[k]),
                                             IssueKeyPatterns))]_vars

\* the sessions of ret.allSessions that hold the entry of line l
HoldersOf(l) ==
    {k \in 1..Len(ret.allSessions) :
        \E j \in 1..Len(ret.allSessions[k].prompts) :
            ret.allSessions[k].prompts[j].line = l}

\* C27: the sessions built from the entries of one file have pairwise
\* distinct session ids, so that after they are stored there is one session
\* row for each of them and every prompt row carries the id of the session
\* that holds its entry and of no other session.
C27_SessionIdsAreDistinct ==
    LibDone("storeSessions") =>
        /\ \A i, j \in 1..Len(ret.allSessions) :
               ret.allSessions[i].session_id = ret.allSessions[j].session_id
                   => i = j
        /\ Cardinality(ret.stored.sessions) = Len(ret.allSessions)
        /\ \A i \in 1..Len(ret.stored.prompts) :
               \A k \in 1..Len(ret.allSessions) :
                   ret.allSessions[k].session_id = ret.stored.prompts[i].session_id
                       => k \in HoldersOf(ret.stored.prompts[i].line)

RECURSIVE JoinLabels(_)
JoinLabels(labels) ==
    IF Len(labels) = 1 THEN labels[1]
    ELSE JoinLabels(Front(labels)) \o "," \o Last(labels)

\* the source fields in which no label occurs twice
DistinctLabelJoins ==
    {JoinLabels(labels) :
        labels \in {q \in UNION {[1..n -> IssueSources] : n \in 1..4} :
                       \A i, j \in 1..Len(q) : q[i] = q[j] => i = j}}

\* C29: in every record extractFromSession returns, the source field names
\* each source label at most once.
C29_EachLabelAtMostOnce ==
    LibDone("extractFromSession") =>
        \A i \in 1..Len(ret) : ret[i].source \in DistinctLabelJoins

====
